---- MODULE Spec2Model ----
(***************************************************************************)
(* A model of the bvh package: the channel-order reconciler of helpers.py, *)
(* the frame decomposer of numpy_reader.py and the forward-kinematics      *)
(* functions of numpy_renderer.py and theano_renderer.py.                  *)
(*                                                                         *)
(* Python values are modelled as follows.  A list is a sequence; a 0-based *)
(* Python index k is position k + 1.  A string that the code slices or     *)
(* concatenates is a sequence of tokens: a joint name is a sequence of     *)
(* name parts, a channel label "Xrotation" is the pair <<"X","rotation">>  *)
(* (ch[0] and ch[1:]), an axis-order string "xyz" is <<"x","y","z">>.      *)
(* A raised exception is a record [kind, node, name]: the node being       *)
(* processed and the name its message shows; no exception is NoError.      *)
(***************************************************************************)
EXTENDS Integers, Sequences, FiniteSets, TLC

VARIABLES
    tree,           \* the Node tree of the parsed file (reader.root)
    joint_order,    \* the canonical joint order passed by the caller
    channel_order,  \* caller's buffer, 3 * len(joint_order) entries
    offsets,        \* caller's buffer, 3 * len(joint_order) entries
    index,          \* the caller's one-element counter list, index[0]
    raised,         \* the exception the last call ended with, or NoError
    phase,          \* what the caller has done so far
    reader,         \* the NumpyBvhReader object's attributes
    angles_list,    \* load_all's local list
    offsets_list,   \* load_all's local list
    log,            \* the lines load_all has printed
    event,          \* the frame event the tokenizer delivered last
    call,           \* the last forward-kinematics call: arguments and result
    prev,           \* the forward-kinematics call before it
    angles_rad,     \* the caller's angle list, passed to numpy get_bones
    i_default       \* the list that is theano get_bones' default for i

vars == <<tree, joint_order, channel_order, offsets, index, raised, phase,
          reader, angles_list, offsets_list, log, event,
          call, prev, angles_rad, i_default>>

fkvars == <<call, prev, angles_rad, i_default>>

\* the outcome of a call that raised nothing
NoError == [kind |-> "None", node |-> 0, name |-> <<>>]

\* An optional tensor argument, an optional table argument, and the record of
\* a forward-kinematics call (see theano_renderer.py below)
\* A tensor is [ndim, shape, data], data being its elements in row-major order.
Tensor(shape, data) == [ndim |-> Len(shape), shape |-> shape, data |-> data]

Vector(data) == Tensor(<<Len(data)>>, data)

NotGiven == [given |-> FALSE, tensor |-> Vector(<<>>)]

Given(tensor) == [given |-> TRUE, tensor |-> tensor]

NoTable == [given |-> FALSE, table |-> <<>>]

NoArgs ==
    [angles |-> Vector(<<>>), fixed_angles |-> NoTable, lengths |-> NotGiven,
     lengths_map |-> <<>>, skip |-> {}]

NoCall ==
    [fn |-> "none", args |-> NoArgs, out |-> <<>>, i |-> 0, rots |-> <<>>,
     raised |-> NoError]

\* ------------------------------------------------------------------ bounds
MaxNodes == 3       \* nodes of a parsed tree
NumJoints == 2      \* joints of the canonical joint order in use
MaxFiles == 2       \* .bvh files of the directory load_all walks
MaxFrames == 2      \* frames a MOTION header declares
MaxBatch == 2       \* samples of a batch given to joint_positions_batch

\* ------------------------------------------------------------ Python helpers
\* str.lower() on the name parts and axis letters that occur in the model
Lower(s) ==
    CASE s = "Hips" -> "hips"
      [] s = "Spine" -> "spine"
      [] s = "LeftForeArm" -> "leftforearm"
      [] s = "LeftHandThumb1" -> "lefthandthumb1"
      [] s = "EndSite" -> "endsite"
      [] s = "End Site" -> "end site"
      [] s = "X" -> "x"
      [] s = "Y" -> "y"
      [] s = "Z" -> "z"
      [] OTHER -> s

\* name.lower() of a name given as a sequence of parts
NameLower(name) == [k \in DOMAIN name |-> Lower(name[k])]

Range(f) == {f[k] : k \in DOMAIN f}

\* ---------------------------------------------------------- canonical order
\* The entries of standard_joint_order the model uses, in the order of the
\* source list: ('hips','xyz'), ('spine','xyz'), ('leftforearm','yzx'),
\* ('lefthandthumb1','xzy').
standard_joints ==
    << << <<"hips">>, <<"x", "y", "z">> >>,
       << <<"spine">>, <<"x", "y", "z">> >>,
       << <<"leftforearm">>, <<"y", "z", "x">> >>,
       << <<"lefthandthumb1">>, <<"x", "z", "y">> >> >>

\* {joint: (i, channel_order) for i, (joint, channel_order) in enumerate(list)}
\* over the first n entries of the list
JointOrderOf(n) ==
    [joint \in {standard_joints[k][1] : k \in 1..n} |->
        LET k == CHOOSE k \in 1..n : standard_joints[k][1] = joint
        IN  <<k - 1, standard_joints[k][2]>>]

\* ------------------------------------------------------------------- trees
\* A tree is the sequence of its nodes; node n's children are the nodes whose
\* parent field is n, in file order.  The root is node 1 (parent 0).
Children(t, n) ==
    LET kids == {c \in DOMAIN t : t[c].parent = n}
        Sorted[S \in SUBSET kids] ==
            IF S = {} THEN <<>>
            ELSE LET m == CHOOSE m \in S : \A o \in S : m <= o
                 IN  <<m>> \o Sorted[S \ {m}]
    IN  Sorted[kids]

PosChannels == << <<"X", "position">>, <<"Y", "position">>, <<"Z", "position">> >>

RotChannels(order) == [k \in DOMAIN order |-> <<order[k], "rotation">>]

\* The labels a joint of a parsed file may carry: a name and a declared
\* rotation order; an end site carries no channels.
FileNames == { <<"Hips">>, <<"Spine">>, <<"LeftForeArm">>, <<"LeftHandThumb1">> }

NamesFor(n) == {nm \in FileNames :
                   \E k \in 1..(n + 1) : k <= Len(standard_joints)
                        /\ standard_joints[k][1] = NameLower(nm)}

FileOrders == { <<"X", "Y", "Z">>, <<"Y", "Z", "X">> }

JointLabels(names, orders) ==
    [name : names, order : orders, is_end_site : {FALSE}]

EndSiteLabel == [name |-> <<"End Site">>, order |-> <<>>, is_end_site |-> TRUE]

\* node.length of a node process_skeleton has not set the attribute of
NoAttribute == -1

\* The node the tokenizer builds as node c of a tree, under parent p: the
\* root declares the three position channels before its rotation channels.
\* The files of the model give a Hips joint the offset 0 0 0 and node c of
\* any other name the offset 0 c 0.
MkNode(c, lab, p) ==
    [name        |-> lab.name,
     channels    |-> IF lab.is_end_site THEN <<>>
                     ELSE IF c = 1 THEN PosChannels \o RotChannels(lab.order)
                     ELSE RotChannels(lab.order),
     offset      |-> IF lab.name = <<"Hips">> THEN <<0, 0, 0>> ELSE <<0, c, 0>>,
     is_end_site |-> lab.is_end_site,
     parent      |-> p,
     length      |-> NoAttribute,
     offset_unit |-> <<>>]

\* the joints a file to reconcile may declare
ReconcileLabels == JointLabels(NamesFor(NumJoints), FileOrders)

\* A parsed file's root alone
RootOnly(lab) == <<MkNode(1, lab, 0)>>

\* The tree t with one more node declared in the block of node p; an end
\* site has no block to declare a node in.
WithNode(t, lab, p) == Append(t, MkNode(Len(t) + 1, lab, p))

CanDeclare(t, p) == p \in DOMAIN t /\ ~t[p].is_end_site

\* ---------------------------------------------------------- numpy_reader.py
\* list.index(x): the 0-based index of the first x, or -1 where Python raises
\* ValueError
ListIndex(lst, x) ==
    IF \E k \in DOMAIN lst : lst[k] = x
    THEN (CHOOSE k \in DOMAIN lst : lst[k] = x /\ \A j \in 1..(k - 1) : lst[j] # x) - 1
    ELSE -1

\* [i for i in range(n) if i not in excluded]
RECURSIVE RangeWithout(_, _, _)
\* (a variant that takes the position channels to be the first three)
RangeAfterFirstThree(from, n, excluded) == [k \in 1..(n - 3) |-> k + 2]

RangeWithout(from, n, excluded) ==
    IF from >= n THEN <<>>
    ELSE (IF from \in excluded THEN <<>> ELSE <<from>>)
         \o RangeWithout(from + 1, n, excluded)

\* BvhReader.num_channels: the channels of the whole tree
RECURSIVE NumChannelsFrom(_, _)
NumChannelsFrom(t, n) ==
    IF n > Len(t) THEN 0 ELSE Len(t[n].channels) + NumChannelsFrom(t, n + 1)

NumChannelsOf(t) == NumChannelsFrom(t, 1)

\* a reader before any event: no attribute set
NoReader ==
    [num_channels |-> 0, pos_idx |-> [kind |-> "unset", idx |-> <<>>],
     ang_idx |-> <<>>, num_frames |-> 0, dt |-> 0, frame_num |-> 0,
     positions |-> <<>>, angles_deg |-> <<>>, angles_rad |-> <<>>,
     raised |-> NoError]

\* pos_idx is slice(ch_x, ch_z + 1), kept as [kind "slice", idx <<start, stop>>],
\* or the list [ch_x, ch_y, ch_z]
on_hierarchy(r, root) ==
    LET ch_x == ListIndex(root.channels, <<"X", "position">>)
        ch_y == ListIndex(root.channels, <<"Y", "position">>)
        ch_z == ListIndex(root.channels, <<"Z", "position">>)
    IN  IF ch_x < 0 \/ ch_y < 0 \/ ch_z < 0
        THEN [r EXCEPT !.raised =
                  [kind |-> "ValueError", node |-> 1, name |-> root.name]]
        ELSE [r EXCEPT
                !.pos_idx = IF ch_y = ch_x + 1 /\ ch_z = ch_y + 1
                            THEN [kind |-> "slice", idx |-> <<ch_x, ch_z + 1>>]
                            ELSE [kind |-> "list", idx |-> <<ch_x, ch_y, ch_z>>],
                !.ang_idx = RangeWithout(0, r.num_channels, {ch_x, ch_y, ch_z})]

\* np.empty((frames, n)): rows nothing has been written to are <<>>
on_motion(r, frames, dt) ==
    [r EXCEPT !.num_frames = frames,
              !.dt = dt,
              !.positions = [f \in 1..frames |-> <<>>],
              !.angles_deg = [f \in 1..frames |-> <<>>],
              !.angles_rad = [f \in 1..frames |-> <<>>],
              !.frame_num = 0]

\* values_arr[i:j]: a slice is clipped to the array
SliceOf(arr, start, stop) ==
    SubSeq(arr, start + 1, IF stop < Len(arr) THEN stop ELSE Len(arr))

\* values_arr[[i, j, ...]] where every index is inside the array
TakeOf(arr, idx) == [k \in DOMAIN idx |-> arr[idx[k] + 1]]

InBounds(arr, idx) == \A k \in DOMAIN idx : idx[k] < Len(arr)

\* degrees * np.pi / 180., kept as the number of pi/180 units
Radians(deg) == [units |-> deg, of |-> "pi/180"]

\* on_frame(values), statement by statement; an exception leaves what the
\* statements before it have written
on_frame(r, values) ==
    LET f == r.frame_num + 1
        err(kind) == [kind |-> kind, node |-> 0, name |-> <<>>]
        posOK == r.pos_idx.kind = "slice" \/ InBounds(values, r.pos_idx.idx)
        pos == IF r.pos_idx.kind = "slice"
               THEN SliceOf(values, r.pos_idx.idx[1], r.pos_idx.idx[2])
               ELSE TakeOf(values, r.pos_idx.idx)
        \* a row of 3 takes 3 values, or 1 value broadcast to all 3
        row == IF Len(pos) = 1 THEN <<pos[1], pos[1], pos[1]>> ELSE pos
    IN  IF ~posOK THEN [r EXCEPT !.raised = err("IndexError")]
        ELSE IF f > r.num_frames THEN [r EXCEPT !.raised = err("IndexError")]
        ELSE IF Len(row) # 3 THEN [r EXCEPT !.raised = err("ValueError")]
        ELSE IF ~InBounds(values, r.ang_idx)
             THEN [r EXCEPT !.positions[f] = row, !.raised = err("IndexError")]
        ELSE LET deg == TakeOf(values, r.ang_idx)
             IN  [r EXCEPT !.positions[f] = row,
                           !.angles_deg[f] = deg,
                           !.angles_rad[f] = [k \in DOMAIN deg |-> Radians(deg[k])],
                           !.frame_num = r.frame_num + 1]

\* no frame event delivered yet
NoEvent == [values |-> <<>>, frame_num |-> -1]

\* --------------------------------------------------------------- helpers.py
\* file_order_string of populate_channel_order_and_offsets
RECURSIVE FileOrderString(_)
\* (a variant that compares the axes in alphabetical order)
FileOrderStringSorted(channels) ==
    LET axes == {Lower(channels[k][1]) :
                    k \in {j \in DOMAIN channels : Lower(channels[j][2]) = "rotation"}}
    IN  SelectSeq(<<"x", "y", "z">>, LAMBDA a : a \in axes)

FileOrderString(channels) ==
    IF channels = <<>> THEN <<>>
    ELSE LET ch == Head(channels)
         IN  (IF Lower(ch[2]) = "rotation" THEN <<Lower(ch[1])>> ELSE <<>>)
             \o FileOrderString(Tail(channels))

\* (a variant that does not advance index[0] inside the loop)
WriteSlotsSameIndex(buf, joint_index, idx) ==
    [k \in DOMAIN buf |->
        IF k - 1 \in (joint_index * 3)..((joint_index + 1) * 3 - 1)
        THEN idx ELSE buf[k]]

\* for i in range(joint_index * 3, (joint_index + 1) * 3):
\*     channel_order[i] = index[0]; index[0] += 1
WriteSlots(buf, joint_index, idx) ==
    [k \in DOMAIN buf |->
        IF k - 1 \in (joint_index * 3)..((joint_index + 1) * 3 - 1)
        THEN idx + (k - 1 - joint_index * 3) ELSE buf[k]]

\* (a variant that writes at slot joint_index instead of joint_index * 3)
WriteOffsetUnscaled(buf, joint_index, offset) ==
    SubSeq(buf, 1, joint_index) \o offset
        \o SubSeq(buf, joint_index + 3 + 1, Len(buf))

\* offsets[joint_index * 3:(joint_index + 1) * 3] = node.offset
WriteOffset(buf, joint_index, offset) ==
    SubSeq(buf, 1, joint_index * 3) \o offset
        \o SubSeq(buf, (joint_index + 1) * 3 + 1, Len(buf))

\* populate_channel_order_and_offsets(node, channel_order, offsets, index,
\* joint_order), on the state st = [channel_order, offsets, index, raised] of
\* the caller's three mutable arguments.  An exception ends the traversal.
RECURSIVE populate_channel_order_and_offsets(_, _, _, _)
RECURSIVE populate_children(_, _, _, _)
populate_channel_order_and_offsets(t, n, st, jo) ==
    IF t[n].is_end_site THEN st
    ELSE LET file_order_string == FileOrderString(t[n].channels)
             key == NameLower(t[n].name)
         IN  IF key \notin DOMAIN jo
             THEN [st EXCEPT !.raised =
                      [kind |-> "KeyError", node |-> n, name |-> key]]
             ELSE LET joint_index == jo[key][1]
                      std_order_string == jo[key][2]
                  IN  IF file_order_string # std_order_string
                      THEN [st EXCEPT !.raised =
                                [kind |-> "AssertionError", node |-> n,
                                 name |-> t[n].name]]
                      ELSE populate_children(t, Children(t, n),
                             [channel_order |->
                                  WriteSlots(st.channel_order, joint_index, st.index),
                              offsets |->
                                  WriteOffset(st.offsets, joint_index, t[n].offset),
                              index |-> st.index + 3,
                              raised |-> NoError],
                             jo)

populate_children(t, kids, st, jo) ==
    IF kids = <<>> \/ st.raised # NoError THEN st
    ELSE populate_children(t, Tail(kids),
             populate_channel_order_and_offsets(t, Head(kids), st, jo), jo)

Zeros(n) == [k \in 1..n |-> 0]

\* The caller's fresh arguments: [0] * len(joint_order) * 3 twice, and [0]
FreshBuffers(jo) ==
    [channel_order |-> Zeros(3 * Cardinality(DOMAIN jo)),
     offsets |-> Zeros(3 * Cardinality(DOMAIN jo)),
     index |-> 0,
     raised |-> NoError]

\* ------------------------------------------- reconciling one file directly
InitPopulate ==
    /\ tree \in {RootOnly(lab) : lab \in ReconcileLabels}
    /\ joint_order = JointOrderOf(NumJoints)
    /\ channel_order = FreshBuffers(joint_order).channel_order
    /\ offsets = FreshBuffers(joint_order).offsets
    /\ index = 0
    /\ raised = NoError
    /\ phase = "parsed"
    /\ reader = NoReader
    /\ angles_list = <<>>
    /\ offsets_list = <<>>
    /\ log = <<>>
    /\ event = NoEvent
    /\ call = NoCall
    /\ prev = NoCall
    /\ angles_rad = <<>>
    /\ i_default = 0

\* populate_channel_order_and_offsets(reader.root, channel_order, offsets, [0],
\* joint_order) called on the caller's fresh buffers
Populate ==
    /\ phase = "parsed"
    /\ LET st == populate_channel_order_and_offsets(
                     tree, 1, FreshBuffers(joint_order), joint_order)
       IN  /\ channel_order' = st.channel_order
           /\ offsets' = st.offsets
           /\ index' = st.index
           /\ raised' = st.raised
    /\ phase' = "populated"
    /\ UNCHANGED <<tree, joint_order, reader, angles_list, offsets_list, log, event, fkvars>>

\* The tokenizer reads one more joint or end site of the HIERARCHY section.
ParseNode ==
    /\ phase = "parsed"
    /\ Len(tree) < MaxNodes
    /\ \E lab \in ReconcileLabels \cup {EndSiteLabel} :
       \E p \in DOMAIN tree :
          /\ CanDeclare(tree, p)
          /\ tree' = WithNode(tree, lab, p)
    /\ UNCHANGED <<joint_order, channel_order, offsets, index, raised, phase,
                   reader, angles_list, offsets_list, log, event, fkvars>>

NextPopulate == ParseNode \/ Populate

SpecPopulate == InitPopulate /\ [][NextPopulate]_vars

\* ------------------------------------------------ what the claims speak of
\* The nodes of t in depth-first pre-order from node n, children in file order
RECURSIVE PreOrderFrom(_, _)
RECURSIVE PreOrderOfAll(_, _)
PreOrderFrom(t, n) == <<n>> \o PreOrderOfAll(t, Children(t, n))

PreOrderOfAll(t, kids) ==
    IF kids = <<>> THEN <<>>
    ELSE PreOrderFrom(t, Head(kids)) \o PreOrderOfAll(t, Tail(kids))

PreOrder(t) == PreOrderFrom(t, 1)

\* the position of node n in the pre-order of t
Rank(t, n) == CHOOSE k \in 1..Len(t) : PreOrder(t)[k] = n

IsJoint(t, n) == n \in DOMAIN t /\ ~t[n].is_end_site

\* the axis letters of the rotation channels a node declares, in file order
DeclaredOrder(node) ==
    LET rot == SelectSeq(node.channels, LAMBDA ch : ch[2] = "rotation")
    IN  [k \in DOMAIN rot |-> Lower(rot[k][1])]

HasEntry(t, n, jo) == NameLower(t[n].name) \in DOMAIN jo

\* joint n is in the canonical order and declares the order expected of it
Reconciles(t, n, jo) ==
    HasEntry(t, n, jo) /\ DeclaredOrder(t[n]) = jo[NameLower(t[n].name)][2]

\* joint n is in the canonical order and declares another order
Swapped(t, n, jo) ==
    IsJoint(t, n) /\ HasEntry(t, n, jo)
        /\ DeclaredOrder(t[n]) # jo[NameLower(t[n].name)][2]

\* the joints of t are exactly the canonical joints, each once, each with
\* the expected order
ExactlyCanonical(t, jo) ==
    /\ \A n \in DOMAIN t : IsJoint(t, n) => Reconciles(t, n, jo)
    /\ \A joint \in DOMAIN jo :
          Cardinality({n \in DOMAIN t :
                          IsJoint(t, n) /\ NameLower(t[n].name) = joint}) = 1

\* C1: after populate_channel_order_and_offsets on a tree whose joints are
\* exactly the canonical joints, whatever their order in the tree, nothing
\* was raised and channel_order is a permutation of 0..N-1, N = 3 * number of
\* canonical joints.
C1_Permutation ==
    (phase = "populated" /\ ExactlyCanonical(tree, joint_order))
        => /\ raised = NoError
           /\ Len(channel_order) = 3 * Cardinality(DOMAIN joint_order)
           /\ Range(channel_order) = 0..(3 * Cardinality(DOMAIN joint_order) - 1)

\* a reconciled tree whose root is not the first canonical joint and which
\* has an end site
C1_Witness ==
    /\ phase = "populated"
    /\ ExactlyCanonical(tree, joint_order)
    /\ joint_order[NameLower(tree[1].name)][1] # 0
    /\ \E n \in DOMAIN tree : tree[n].is_end_site
    /\ channel_order[1] # 0

\* C2 as stated: every joint that declares another order than the expected
\* one is the joint the channel-order mismatch names, whatever the other
\* joints of the tree are.
C2_Original ==
    phase = "populated"
        => \A n \in DOMAIN tree :
              Swapped(tree, n, joint_order)
                  => /\ raised.kind = "AssertionError"
                     /\ raised.name = tree[n].name

\* every node visited before n reconciles (or is an end site)
AllBeforeReconcile(t, n, jo) ==
    \A m \in DOMAIN t :
        (Rank(t, m) < Rank(t, n) /\ IsJoint(t, m)) => Reconciles(t, m, jo)

\* C2 amended: a joint that declares another order than the expected one is
\* the joint the channel-order mismatch names when every joint visited before
\* it in pre-order reconciles, whatever the joints visited after it are.
C2_FirstSwapped ==
    phase = "populated"
        => \A n \in DOMAIN tree :
              (Swapped(tree, n, joint_order)
                  /\ AllBeforeReconcile(tree, n, joint_order))
                  => /\ raised.kind = "AssertionError"
                     /\ raised.node = n
                     /\ raised.name = tree[n].name

\* a swapped joint below a correct root, with a joint after it that has no
\* canonical entry
C2_Witness ==
    /\ phase = "populated"
    /\ \E n \in DOMAIN tree :
          /\ n # 1
          /\ Swapped(tree, n, joint_order)
          /\ AllBeforeReconcile(tree, n, joint_order)
          /\ raised.node = n
          /\ \E m \in DOMAIN tree :
                /\ Rank(tree, m) > Rank(tree, n)
                /\ IsJoint(tree, m)
                /\ ~HasEntry(tree, m, joint_order)

\* ------------------------------------------------------------------ load_all
\* The files of the walked directory: a root joint with at most one child.
FileTrees ==
    {RootOnly(lab) : lab \in ReconcileLabels}
    \cup {WithNode(RootOnly(lab), child, 1) :
             lab \in ReconcileLabels, child \in ReconcileLabels \cup {EndSiteLabel}}

\* The motion section of a file of the directory: one frame, the value of
\* channel c being 10 * c degrees.
FileFrame(t) == [c \in 1..NumChannelsOf(t) |-> 10 * (c - 1)]

\* reader = NumpyBvhReader(file_path): the base class reads the file and
\* fires on_hierarchy, on_motion and one on_frame per frame
ReadFile(t) ==
    on_frame(
        on_motion(
            on_hierarchy([NoReader EXCEPT !.num_channels = NumChannelsOf(t)], t[1]),
            1, 1),
        FileFrame(t))

\* angles_rad[:, channel_order]
SelectColumns(matrix, cols) ==
    [f \in DOMAIN matrix |-> [k \in DOMAIN cols |-> matrix[f][cols[k] + 1]]]

ColumnsInBounds(matrix, cols) ==
    \A f \in DOMAIN matrix : \A k \in DOMAIN cols : cols[k] < Len(matrix[f])

InitLoadAll ==
    /\ tree = <<>>
    /\ joint_order = JointOrderOf(NumJoints)
    /\ channel_order = <<>>
    /\ offsets = <<>>
    /\ index = 0
    /\ raised = NoError
    /\ phase = "loading"
    /\ reader = NoReader
    /\ angles_list = <<>>
    /\ offsets_list = <<>>
    /\ log = <<>>
    /\ event = NoEvent
    /\ call = NoCall
    /\ prev = NoCall
    /\ angles_rad = <<>>
    /\ i_default = 0

\* One iteration of load_all's loop, for the next .bvh file of the walk: the
\* file is read, the buffers are made and reconciled, and the file is
\* appended, skipped (AssertionError) or ends load_all (any other exception).
LoadFile(t) ==
    /\ phase = "loading"
    /\ Len(log) < MaxFiles
    /\ LET rd == ReadFile(t)
           st == populate_channel_order_and_offsets(
                     t, 1, FreshBuffers(joint_order), joint_order)
           file == Len(log) + 1
       IN  /\ tree' = t
           /\ reader' = rd
           /\ channel_order' = st.channel_order
           /\ offsets' = st.offsets
           /\ index' = st.index
           /\ IF st.raised = NoError
              THEN /\ offsets_list' = Append(offsets_list, st.offsets)
                   /\ IF ColumnsInBounds(rd.angles_rad, st.channel_order)
                      THEN /\ angles_list' = Append(angles_list,
                                   SelectColumns(rd.angles_rad, st.channel_order))
                           /\ log' = Append(log, [line |-> "Loaded", file |-> file,
                                                  reason |-> NoError])
                           /\ raised' = NoError
                           /\ phase' = "loading"
                      ELSE /\ raised' = [kind |-> "IndexError", node |-> 0,
                                         name |-> <<>>]
                           /\ phase' = "aborted"
                           /\ UNCHANGED <<angles_list, log>>
              ELSE /\ raised' = st.raised
                   /\ UNCHANGED <<angles_list, offsets_list>>
                   /\ IF st.raised.kind = "AssertionError"
                      THEN /\ log' = Append(log, [line |-> "Skipping", file |-> file,
                                                  reason |-> st.raised])
                           /\ phase' = "loading"
                      ELSE /\ phase' = "aborted"
                           /\ UNCHANGED log
    /\ UNCHANGED <<joint_order, event, fkvars>>

\* return np.vstack(angles_list), np.array(offsets_list): vstack raises
\* ValueError on an empty list
LoadReturn ==
    /\ phase = "loading"
    /\ phase' = IF angles_list = <<>> THEN "aborted" ELSE "returned"
    /\ raised' = IF angles_list = <<>>
                 THEN [kind |-> "ValueError", node |-> 0, name |-> <<>>]
                 ELSE raised
    /\ UNCHANGED <<tree, joint_order, channel_order, offsets, index, reader,
                   angles_list, offsets_list, log, event, fkvars>>

NextLoadAll == (\E t \in FileTrees : LoadFile(t)) \/ LoadReturn

SpecLoadAll == InitLoadAll /\ [][NextLoadAll]_vars

\* ------------------------------------------------ what the claims speak of
\* the first node in pre-order that does not reconcile, 0 if every joint does
FirstFailing(t, jo) ==
    LET bad == {n \in DOMAIN t : IsJoint(t, n) /\ ~Reconciles(t, n, jo)}
    IN  IF bad = {} THEN 0
        ELSE CHOOSE n \in bad : \A m \in bad : Rank(t, n) <= Rank(t, m)

\* the file just processed fails on a joint name without canonical entry
FailsOnMissingEntry ==
    /\ tree # <<>>
    /\ FirstFailing(tree, joint_order) # 0
    /\ ~HasEntry(tree, FirstFailing(tree, joint_order), joint_order)

\* load_all has printed that it skips the file just processed
SkippedWithReason ==
    /\ log # <<>>
    /\ log[Len(log)].line = "Skipping"
    /\ log[Len(log)].reason.node = FirstFailing(tree, joint_order)

\* C5: a file with a joint name that has no canonical entry is skipped by
\* load_all with a logged reason, and load_all goes on to the next file.
C5_MissingEntrySkipped ==
    FailsOnMissingEntry => (phase = "loading" /\ SkippedWithReason)

PopulateFailed == raised.kind \in {"AssertionError", "KeyError"}

\* C6 as stated: when populate_channel_order_and_offsets fails, the buffers
\* and the counter hold no write of the joints processed before the failing
\* one, and load_all has appended nothing for the file.
C6_Original ==
    PopulateFailed
        => /\ channel_order = Zeros(Len(channel_order))
           /\ offsets = Zeros(Len(offsets))
           /\ index = 0
           /\ Len(angles_list) = Cardinality({k \in DOMAIN log : log[k].line = "Loaded"})
           /\ Len(offsets_list) = Len(angles_list)

\* the joints of t visited before node f, in pre-order
JointsBefore(t, f) ==
    SelectSeq(SubSeq(PreOrder(t), 1, Rank(t, f) - 1), LAMBDA n : IsJoint(t, n))

\* the last of the joints before f that has canonical slot s, 0 if none has
LastWriter(t, f, jo, s) ==
    LET before == JointsBefore(t, f)
        W == {j \in DOMAIN before : jo[NameLower(t[before[j]].name)][1] = s}
    IN  IF W = {} THEN 0 ELSE CHOOSE j \in W : \A o \in W : o <= j

\* what the joints visited before f leave in channel_order and in offsets
ChannelOrderBefore(t, f, jo) ==
    [k \in 1..(3 * Cardinality(DOMAIN jo)) |->
        LET j == LastWriter(t, f, jo, (k - 1) \div 3)
        IN  IF j = 0 THEN 0 ELSE 3 * (j - 1) + ((k - 1) % 3)]

OffsetsBefore(t, f, jo) ==
    [k \in 1..(3 * Cardinality(DOMAIN jo)) |->
        LET j == LastWriter(t, f, jo, (k - 1) \div 3)
        IN  IF j = 0 THEN 0 ELSE t[JointsBefore(t, f)[j]].offset[((k - 1) % 3) + 1]]

\* C6 amended: when populate_channel_order_and_offsets fails on a joint, the
\* buffers hold exactly the writes of the joints visited before it (they are
\* not undone) and the counter is 3 times their number, and the step of
\* load_all that processes the file leaves angles_list and offsets_list as
\* they were.
C6_PartialWritesNoAppend ==
    [][(phase = "loading" /\ (log' # log \/ phase' = "aborted") /\ PopulateFailed')
          => /\ channel_order' = ChannelOrderBefore(tree', raised'.node, joint_order)
             /\ offsets' = OffsetsBefore(tree', raised'.node, joint_order)
             /\ index' = 3 * Len(JointsBefore(tree', raised'.node))
             /\ raised'.node = FirstFailing(tree', joint_order)
             /\ angles_list' = angles_list
             /\ offsets_list' = offsets_list]_vars

\* the second file of the directory fails on its second joint, after the
\* first file was loaded
C6_Witness ==
    /\ PopulateFailed
    /\ raised.node = 2
    /\ index = 3
    /\ channel_order # Zeros(Len(channel_order))
    /\ offsets # Zeros(Len(offsets))
    /\ Len(log) = 2
    /\ Len(angles_list) = 1
    /\ Len(offsets_list) = 1

\* -------------------------------------------------- reading one file's motion
\* Root channel layouts of the files read: positions first, positions last,
\* positions in descending order, positions and rotations interleaved.
RootLayouts ==
    { PosChannels \o RotChannels(<<"Z", "X", "Y">>),
      RotChannels(<<"Z", "X", "Y">>) \o PosChannels,
      << <<"Z", "position">>, <<"Y", "position">>, <<"X", "position">> >>
          \o RotChannels(<<"X", "Y", "Z">>),
      << <<"X", "position">>, <<"X", "rotation">>, <<"Y", "position">>,
         <<"Y", "rotation">>, <<"Z", "position">>, <<"Z", "rotation">> >> }

\* a root with the given channels, alone or with one child joint
MotionTrees ==
    LET root(chs) == [MkNode(1, [name |-> <<"Hips">>, order |-> <<>>,
                                 is_end_site |-> FALSE], 0)
                         EXCEPT !.channels = chs]
        child == MkNode(2, [name |-> <<"Spine">>, order |-> <<"X", "Y", "Z">>,
                            is_end_site |-> FALSE], 1)
    IN  {<<root(chs)>> : chs \in RootLayouts}
        \cup {<<root(chs), child>> : chs \in RootLayouts}

\* the values of frame event number e with n values
FrameValues(e, n) == [c \in 1..n |-> 100 * e + (c - 1)]

InitReader ==
    /\ tree \in MotionTrees
    /\ joint_order = JointOrderOf(NumJoints)
    /\ channel_order = <<>>
    /\ offsets = <<>>
    /\ index = 0
    /\ raised = NoError
    /\ phase = "parsed"
    /\ reader = [NoReader EXCEPT !.num_channels = NumChannelsOf(tree)]
    /\ angles_list = <<>>
    /\ offsets_list = <<>>
    /\ log = <<>>
    /\ event = NoEvent
    /\ call = NoCall
    /\ prev = NoCall
    /\ angles_rad = <<>>
    /\ i_default = 0

OnHierarchy ==
    /\ phase = "parsed"
    /\ reader' = on_hierarchy(reader, tree[1])
    /\ phase' = IF reader'.raised = NoError THEN "hierarchy" ELSE "failed"
    /\ UNCHANGED <<tree, joint_order, channel_order, offsets, index, raised,
                   angles_list, offsets_list, log, event, fkvars>>

OnMotion(frames) ==
    /\ phase = "hierarchy"
    /\ reader' = on_motion(reader, frames, 1)
    /\ phase' = "motion"
    /\ UNCHANGED <<tree, joint_order, channel_order, offsets, index, raised,
                   angles_list, offsets_list, log, event, fkvars>>

\* a frame event with n values; an exception ends the read
OnFrame(n) ==
    /\ phase = "motion"
    /\ event' = [values |-> FrameValues(reader.frame_num, n),
                 frame_num |-> reader.frame_num]
    /\ reader' = on_frame(reader, event'.values)
    /\ phase' = IF reader'.raised = NoError THEN "motion" ELSE "failed"
    /\ UNCHANGED <<tree, joint_order, channel_order, offsets, index, raised,
                   angles_list, offsets_list, log, fkvars>>

NextReader ==
    \/ OnHierarchy
    \/ \E frames \in 0..MaxFrames : OnMotion(frames)
    \/ \E n \in 0..(reader.num_channels + 1) : OnFrame(n)

SpecReader == InitReader /\ [][NextReader]_vars

\* ------------------------------------------------ what the claims speak of
\* the frame event delivered last had a wrong number of values, or came
\* after num_frames frame events had been stored
BadFrameEvent ==
    /\ event # NoEvent
    /\ \/ Len(event.values) # reader.num_channels
       \/ event.frame_num >= reader.num_frames

\* C7: a frame event whose value count differs from the total channel count,
\* and any frame event delivered after `frames` frame events were stored,
\* ends in an error and is not stored in the positions and angles buffers.
C7_BadFrameRejected ==
    BadFrameEvent
        => /\ reader.raised # NoError
           /\ reader.frame_num = event.frame_num

\* ------------------------------------------------------ process_skeleton
\* offset.dot(offset) ** 0.5 for the offsets of the model, whose squared
\* length is a perfect square
SquareRoot(d) == CHOOSE r \in 0..d : r * r = d

Dot(u, v) == u[1] * v[1] + u[2] * v[2] + u[3] * v[3]

\* process_skeleton(root): every node gets length and offset_unit, and an
\* end site named 'End Site' is renamed to its parent's name + 'EndSite'.
\* (The recursion visits every node once and renames a child after its
\* parent, a joint, is final, so the result is this map over the nodes.)
process_skeleton(t) ==
    [n \in DOMAIN t |->
        LET node == t[n]
            length == SquareRoot(Dot(node.offset, node.offset))
        IN  [node EXCEPT
                !.length = length,
                !.offset_unit = IF length # 0
                                THEN [k \in 1..3 |-> node.offset[k] \div length]
                                ELSE node.offset,
                !.name = IF node.parent # 0 /\ node.is_end_site
                              /\ node.name = <<"End Site">>
                         THEN t[node.parent].name \o <<"EndSite">>
                         ELSE node.name]]

\* ------------------------------------------------------ theano_renderer.py
\* A transform is the sequence of the local transforms it is the product of
\* (the identity is <<>>); a local transform is [rot, offset], rot being the
\* sequence of the elementary rotations it is the product of; an elementary
\* rotation is [axis, src, value]: about which axis, by the value read from
\* where.  A tensor is [ndim, data].
\* the traversal state of one top-level call: the cell i, the list built so
\* far, the elementary rotations built so far (with the node of each), and
\* the exception that ended it
StartAt(i) == [i |-> i, out |-> <<>>, rots |-> <<>>, raised |-> NoError]

\* ch in rotation_map
InRotationMap(ch) == ch[2] = "rotation" /\ ch[1] \in {"X", "Y", "Z"}

\* angles[i] of a symbolic vector: an index past the end fails only when the
\* graph is evaluated
AngleAt(vec, i) ==
    IF i < Len(vec) THEN [src |-> "angles", value |-> vec[i + 1]]
    ELSE [src |-> "index out of bounds", value |-> i]

\* node.name.lower() + '_' + ch[0].lower()
ChKey(node, ch) == NameLower(node.name) \o <<"_", Lower(ch[1])>>

IsFixed(a, ch_key) == a.fixed_angles.given /\ ch_key \in DOMAIN a.fixed_angles.table

\* (a variant that advances the cursor for a fixed channel too)
ConsumeAngleAlways(a, node, ch, i) ==
    IF IsFixed(a, ChKey(node, ch))
    THEN [rot |-> [axis |-> ch[1], src |-> "fixed",
                   value |-> a.fixed_angles.table[ChKey(node, ch)]],
          i |-> i + 1]
    ELSE [rot |-> [axis |-> ch[1]] @@ AngleAt(a.angles.data, i), i |-> i + 1]

\* joint_positions, one rotation channel: the rotation and the new i[0]
ConsumeAngle(a, node, ch, i) ==
    IF IsFixed(a, ChKey(node, ch))
    THEN [rot |-> [axis |-> ch[1], src |-> "fixed",
                   value |-> a.fixed_angles.table[ChKey(node, ch)]],
          i |-> i]
    ELSE [rot |-> [axis |-> ch[1]] @@ AngleAt(a.angles.data, i), i |-> i + 1]

\* joint_positions, for ch in node.channels: acc = [rot, i, rots]
RECURSIVE RotationLoop(_, _, _, _, _)
RotationLoop(a, t, n, chs, acc) ==
    IF chs = <<>> THEN acc
    ELSE IF ~InRotationMap(Head(chs)) THEN RotationLoop(a, t, n, Tail(chs), acc)
    ELSE LET c == ConsumeAngle(a, t[n], Head(chs), acc.i)
         IN  RotationLoop(a, t, n, Tail(chs),
                 [rot |-> Append(acc.rot, c.rot),
                  i |-> c.i,
                  rots |-> Append(acc.rots, [node |-> n, rot |-> c.rot])])

\* (a variant that prunes below every skipped joint)
DescendsUnlessSkipped(node, skip) == ~(NameLower(node.name) \in skip)

\* not (node.name.lower() in skip and node.is_end_site)
Descends(node, skip) == ~(NameLower(node.name) \in skip /\ node.is_end_site)

\* not node.name.lower() in skip
Emits(node, skip) == ~(NameLower(node.name) \in skip)

Scale(vec, k) == [j \in DOMAIN vec |-> vec[j] * k]

\* joint_positions, node_offset: [raised, value]
NodeOffset(a, node, n) ==
    LET err(kind) == [raised |-> [kind |-> kind, node |-> n, name |-> node.name],
                      value |-> <<>>]
        key == NameLower(node.name)
    IN  IF ~a.lengths.given THEN [raised |-> NoError, value |-> node.offset]
        ELSE IF node.length = NoAttribute THEN err("AttributeError")
        ELSE IF node.length = 0 THEN [raised |-> NoError, value |-> node.offset]
        ELSE IF key \notin DOMAIN a.lengths_map THEN err("KeyError")
        ELSE [raised |-> NoError,
              value |-> Scale(node.offset_unit,
                              a.lengths.tensor.data[a.lengths_map[key] + 1])]

\* joint_positions(node, angles, fixed_angles, lengths, lengths_map, skip, i,
\* parent_trans) on the traversal state st; st.out is the list joints
RECURSIVE joint_positions(_, _, _, _, _)
RECURSIVE joint_positions_children(_, _, _, _, _)
joint_positions(t, n, a, st, parent_trans) ==
    LET node == t[n]
        r == RotationLoop(a, t, n, node.channels,
                          [rot |-> <<>>, i |-> st.i, rots |-> st.rots])
        st1 == [st EXCEPT !.i = r.i, !.rots = r.rots]
        off == NodeOffset(a, node, n)
        node_trans == Append(parent_trans, [rot |-> r.rot, offset |-> off.value])
    IN  IF ~Descends(node, a.skip) THEN st1
        ELSE IF off.raised # NoError THEN [st1 EXCEPT !.raised = off.raised]
        ELSE joint_positions_children(t, Children(t, n), a,
                 IF Emits(node, a.skip)
                 THEN [st1 EXCEPT !.out = Append(@, node_trans)]
                 ELSE st1,
                 node_trans)

joint_positions_children(t, kids, a, st, node_trans) ==
    IF kids = <<>> \/ st.raised # NoError THEN st
    ELSE joint_positions_children(t, Tail(kids), a,
             joint_positions(t, Head(kids), a, st, node_trans), node_trans)

\* tensor[None, :]
AddLeadingDim(x) == Tensor(<<1>> \o x.shape, x.data)

\* matrix[:, k] of a symbolic matrix, one entry for each row: an index past
\* the end fails only when the graph is evaluated
ColumnAt(x, k) ==
    [b \in 1..x.shape[1] |->
        IF k < x.shape[2]
        THEN [src |-> "angles", value |-> x.data[(b - 1) * x.shape[2] + k + 1]]
        ELSE [src |-> "index out of bounds", value |-> k]]

\* joint_positions_batch, the check at entry: the exception raised, n_batch
\* and the arguments as the rest of the call sees them
RankCheck(a) ==
    IF a.angles.ndim = 2
    THEN [raised |-> NoError, n_batch |-> a.angles.shape[1], args |-> a]
    ELSE IF a.angles.ndim = 1
    THEN [raised |-> NoError, n_batch |-> 1,
          args |-> [a EXCEPT
                      !.angles = AddLeadingDim(@),
                      !.lengths = IF @.given /\ @.tensor.ndim = 1
                                  THEN Given(AddLeadingDim(@.tensor))
                                  ELSE @]]
    ELSE [raised |-> [kind |-> "Exception", node |-> 0, name |-> <<>>],
          n_batch |-> 0, args |-> a]

\* (a variant that reads the angle of a fixed channel from angles)
ConsumeAngleBatchIgnoreFixed(a, node, ch, i, n_batch) ==
    LET col == ColumnAt(a.angles, i)
    IN  [rot |-> [b \in 1..n_batch |-> [axis |-> ch[1]] @@ col[b]], i |-> i + 1]

\* joint_positions_batch, one rotation channel: the rotation of every sample
\* and the new i[0]
ConsumeAngleBatch(a, node, ch, i, n_batch) ==
    IF IsFixed(a, ChKey(node, ch))
    THEN [rot |-> [b \in 1..n_batch |->
                      [axis |-> ch[1], src |-> "fixed",
                       value |-> a.fixed_angles.table[ChKey(node, ch)]]],
          i |-> i]
    ELSE LET col == ColumnAt(a.angles, i)
         IN  [rot |-> [b \in 1..n_batch |-> [axis |-> ch[1]] @@ col[b]],
              i |-> i + 1]

\* joint_positions_batch, for ch in node.channels: acc = [rot, i, rots], rot
\* being the product of every sample
RECURSIVE RotationLoopBatch(_, _, _, _, _, _)
RotationLoopBatch(a, t, n, chs, acc, n_batch) ==
    IF chs = <<>> THEN acc
    ELSE IF ~InRotationMap(Head(chs))
    THEN RotationLoopBatch(a, t, n, Tail(chs), acc, n_batch)
    ELSE LET c == ConsumeAngleBatch(a, t[n], Head(chs), acc.i, n_batch)
         IN  RotationLoopBatch(a, t, n, Tail(chs),
                 [rot |-> [b \in 1..n_batch |-> Append(acc.rot[b], c.rot[b])],
                  i |-> c.i,
                  rots |-> Append(acc.rots, [node |-> n, rot |-> c.rot])],
                 n_batch)

\* joint_positions_batch, node_offset and its assignment into local_trans:
\* [raised, value], value being the offset of every sample.  lengths[:, k]
\* of a tensor with fewer than two dimensions is an IndexError; with more
\* than two, node_offset has one dimension more than the subtensor it is
\* assigned to, a TypeError.
NodeOffsetBatch(a, node, n, n_batch) ==
    LET err(kind) == [raised |-> [kind |-> kind, node |-> n, name |-> node.name],
                      value |-> <<>>]
        key == NameLower(node.name)
        x == a.lengths.tensor
        fromFile == [raised |-> NoError, value |-> [b \in 1..n_batch |-> node.offset]]
    IN  IF ~a.lengths.given THEN fromFile
        ELSE IF node.length = NoAttribute THEN err("AttributeError")
        ELSE IF node.length = 0 THEN fromFile
        ELSE IF key \notin DOMAIN a.lengths_map THEN err("KeyError")
        ELSE IF x.ndim < 2 THEN err("IndexError")
        ELSE IF x.ndim > 2 THEN err("TypeError")
        ELSE [raised |-> NoError,
              value |-> [b \in 1..n_batch |->
                            Scale(node.offset_unit,
                                  x.data[(b - 1) * x.shape[2]
                                         + a.lengths_map[key] + 1])]]

\* joint_positions_batch(node, angles, fixed_angles, lengths, lengths_map,
\* skip, i, parent_trans) on the traversal state st; a transform is here the
\* sequence, over the samples, of the sample's transform
RECURSIVE joint_positions_batch(_, _, _, _, _)
RECURSIVE joint_positions_batch_children(_, _, _, _, _)
joint_positions_batch(t, n, a0, st, parent_trans) ==
    LET node == t[n]
        c == RankCheck(a0)
        a == c.args
        n_batch == c.n_batch
        parent == IF parent_trans = <<>>
                  THEN [b \in 1..n_batch |-> <<>>] ELSE parent_trans
        r == RotationLoopBatch(a, t, n, node.channels,
                 [rot |-> [b \in 1..n_batch |-> <<>>], i |-> st.i,
                  rots |-> st.rots], n_batch)
        st1 == [st EXCEPT !.i = r.i, !.rots = r.rots]
        off == NodeOffsetBatch(a, node, n, n_batch)
        node_trans == [b \in 1..n_batch |->
                          Append(parent[b],
                                 [rot |-> r.rot[b], offset |-> off.value[b]])]
    IN  IF c.raised # NoError THEN [st EXCEPT !.raised = c.raised]
        ELSE IF ~Descends(node, a.skip) THEN st1
        ELSE IF off.raised # NoError THEN [st1 EXCEPT !.raised = off.raised]
        ELSE joint_positions_batch_children(t, Children(t, n), a,
                 IF Emits(node, a.skip)
                 THEN [st1 EXCEPT !.out = Append(@, node_trans)]
                 ELSE st1,
                 node_trans)

joint_positions_batch_children(t, kids, a, st, node_trans) ==
    IF kids = <<>> \/ st.raised # NoError THEN st
    ELSE joint_positions_batch_children(t, Tail(kids), a,
             joint_positions_batch(t, Head(kids), a, st, node_trans), node_trans)

\* --------------------------------------------- forward kinematics on a file
\* the joints of the files given to the renderer
RenderLabels ==
    { [name |-> <<"Hips">>, order |-> <<"X", "Y", "Z">>, is_end_site |-> FALSE],
      [name |-> <<"Spine">>, order |-> <<"Y", "Z", "X">>, is_end_site |-> FALSE] }

\* the caller's angle vector: one angle for every rotation channel a tree
\* of the model can have, angle k being 10 + k
AngleVector == [k \in 1..(3 * MaxNodes) |-> 10 + (k - 1)]

\* the caller's fixed_angles arguments
FixedTables ==
    { NoTable,
      [given |-> TRUE,
       table |-> [key \in { <<"hips", "_", "x">> } |-> 100]],
      [given |-> TRUE,
       table |-> [key \in { <<"spine", "_", "z">>, <<"spine", "_", "y">>,
                            <<"hips", "_", "z">> } |-> 200]] }

\* the caller's lengths vector and lengths_map: no entry for the end site of
\* a Spine joint
LengthVector == <<50, 60, 70>>

LengthsMap ==
    [key \in { <<"hips">>, <<"spine">>, <<"hips", "endsite">> } |->
        CASE key = <<"hips">> -> 0
          [] key = <<"spine">> -> 1
          [] OTHER -> 2]

\* the caller's skip arguments
SkipLists ==
    { {}, { <<"hips">> }, { <<"spine">> }, { <<"end site">> },
      { <<"hips", "endsite">> }, { <<"spine">>, <<"spine", "endsite">> } }

\* the caller's batches: sample b of a batch of angles is the angle vector
\* plus 100 * (b - 1), sample b of a batch of lengths the length vector plus
\* 100 * (b - 1)
Batch(vec, n_batch) ==
    Tensor(<<n_batch, Len(vec)>>,
           [j \in 1..(n_batch * Len(vec)) |->
               vec[((j - 1) % Len(vec)) + 1] + 100 * ((j - 1) \div Len(vec))])

\* tensors of rank 0 and of rank 3
Scalar(x) == Tensor(<<>>, <<x>>)

Cube(vec) == Tensor(<<1, 1, Len(vec)>>, vec)

AnglesOfAnyRank ==
    {Scalar(10), Vector(AngleVector), Cube(AngleVector)}
        \cup {Batch(AngleVector, n) : n \in 1..MaxBatch}

LengthsOfAnyRank ==
    {NotGiven, Given(Scalar(50)), Given(Vector(LengthVector)),
     Given(Cube(LengthVector))}
        \cup {Given(Batch(LengthVector, n)) : n \in 1..MaxBatch}

WellRanked(x) == x.ndim \in {1, 2}

\* a batch of lengths has one row for each sample of angles
SamplesAgree(angles, lengths) ==
    (lengths.given /\ lengths.tensor.ndim = 2 /\ WellRanked(angles))
        => lengths.tensor.shape[1] = (IF angles.ndim = 2 THEN angles.shape[1] ELSE 1)

InitRender ==
    /\ tree \in {RootOnly(lab) : lab \in RenderLabels}
    /\ joint_order = JointOrderOf(NumJoints)
    /\ channel_order = <<>>
    /\ offsets = <<>>
    /\ index = 0
    /\ raised = NoError
    /\ phase = "parsed"
    /\ reader = NoReader
    /\ angles_list = <<>>
    /\ offsets_list = <<>>
    /\ log = <<>>
    /\ event = NoEvent
    /\ call = NoCall
    /\ prev = NoCall
    /\ angles_rad = <<>>
    /\ i_default = 0

\* The tokenizer reads one more joint or end site of the HIERARCHY section.
ParseRenderNode ==
    /\ phase = "parsed"
    /\ call.fn = "none"
    /\ Len(tree) < MaxNodes
    /\ \E lab \in RenderLabels \cup {EndSiteLabel} :
       \E p \in DOMAIN tree :
          /\ CanDeclare(tree, p)
          /\ tree' = WithNode(tree, lab, p)
    /\ UNCHANGED <<joint_order, channel_order, offsets, index, raised, phase,
                   reader, angles_list, offsets_list, log, event, fkvars>>

\* process_skeleton(reader.root), before any forward-kinematics call
ProcessSkeleton ==
    /\ phase = "parsed"
    /\ call.fn = "none"
    /\ tree' = process_skeleton(tree)
    /\ phase' = "processed"
    /\ UNCHANGED <<joint_order, channel_order, offsets, index, raised,
                   reader, angles_list, offsets_list, log, event, fkvars>>

\* a top-level joint_positions(root, angles, fixed_angles, lengths,
\* lengths_map, skip): i and parent_trans take their defaults
JointPositions(fixed, lengths, skip) ==
    /\ phase \in {"parsed", "processed"}
    /\ call.fn = "none"
    /\ LET a == [angles |-> Vector(AngleVector), fixed_angles |-> fixed,
                 lengths |-> lengths, lengths_map |-> LengthsMap, skip |-> skip]
           st == joint_positions(tree, 1, a, StartAt(0), <<>>)
       IN  call' = [fn |-> "joint_positions", args |-> a, out |-> st.out,
                    i |-> st.i, rots |-> st.rots, raised |-> st.raised]
    /\ prev' = call
    /\ UNCHANGED <<tree, joint_order, channel_order, offsets, index, raised,
                   phase, reader, angles_list, offsets_list, log, event,
                   angles_rad, i_default>>

\* a top-level joint_positions_batch(root, angles, fixed_angles, lengths,
\* lengths_map, skip): i and parent_trans take their defaults.  The caller
\* gives angles and lengths for the same number of samples.
JointPositionsBatch(angles, fixed, lengths, skip) ==
    /\ phase \in {"parsed", "processed"}
    /\ call.fn = "none"
    /\ SamplesAgree(angles, lengths)
    /\ LET a == [angles |-> angles, fixed_angles |-> fixed,
                 lengths |-> lengths, lengths_map |-> LengthsMap, skip |-> skip]
           st == joint_positions_batch(tree, 1, a, StartAt(0), <<>>)
       IN  call' = [fn |-> "joint_positions_batch", args |-> a, out |-> st.out,
                    i |-> st.i, rots |-> st.rots, raised |-> st.raised]
    /\ prev' = call
    /\ UNCHANGED <<tree, joint_order, channel_order, offsets, index, raised,
                   phase, reader, angles_list, offsets_list, log, event,
                   angles_rad, i_default>>

NextRender ==
    \/ ParseRenderNode
    \/ ProcessSkeleton
    \/ \E fixed \in FixedTables, skip \in SkipLists,
          lengths \in {NotGiven, Given(Vector(LengthVector))} :
          JointPositions(fixed, lengths, skip)
    \/ \E fixed \in FixedTables, skip \in SkipLists,
          angles \in {x \in AnglesOfAnyRank : WellRanked(x)},
          lengths \in {x \in LengthsOfAnyRank : x.given => WellRanked(x.tensor)} :
          JointPositionsBatch(angles, fixed, lengths, skip)
    \/ \E angles \in AnglesOfAnyRank, lengths \in LengthsOfAnyRank :
          JointPositionsBatch(angles, NoTable, lengths, {})

SpecRender == InitRender /\ [][NextRender]_vars

\* ------------------------------------------------ what the claims speak of
\* the rotation channels of the given nodes, node after node, in the order
\* each node declares them
RECURSIVE RotationChannelsOf(_, _)
RotationChannelsOf(t, nodes) ==
    IF nodes = <<>> THEN <<>>
    ELSE LET rot == SelectSeq(t[Head(nodes)].channels,
                              LAMBDA ch : ch[2] = "rotation")
         IN  [k \in DOMAIN rot |-> [node |-> Head(nodes), ch |-> rot[k]]]
             \o RotationChannelsOf(t, Tail(nodes))

\* '<joint-name>_<axis-letter>' of a visited rotation channel
KeyOf(t, e) == NameLower(t[e.node].name) \o <<"_", Lower(e.ch[1])>>

HasFixedEntry(t, e, fixed) == fixed.given /\ KeyOf(t, e) \in DOMAIN fixed.table

Returned(fn) == call.fn = fn /\ call.raised = NoError

\* C10: in one top-level joint_positions call the rotation channels are
\* visited in pre-order over the nodes and in declaration order within a
\* node; the k-th visited channel without entry in fixed_angles uses
\* angles[k], a channel with an entry uses the fixed value and leaves the
\* cursor, and at return the cursor is the number of visited channels
\* without entry, those of skipped joints included.
C10_CursorOrder ==
    Returned("joint_positions")
        => LET E == RotationChannelsOf(tree, PreOrder(tree))
               fixed == call.args.fixed_angles
               free == {p \in DOMAIN E : ~HasFixedEntry(tree, E[p], fixed)}
           IN  /\ Len(call.rots) = Len(E)
               /\ \A p \in DOMAIN E :
                     /\ call.rots[p].node = E[p].node
                     /\ call.rots[p].rot.axis = E[p].ch[1]
                     /\ IF p \in free
                        THEN /\ call.rots[p].rot.src = "angles"
                             /\ call.rots[p].rot.value =
                                  call.args.angles.data[
                                      Cardinality({q \in free : q < p}) + 1]
                        ELSE /\ call.rots[p].rot.src = "fixed"
                             /\ call.rots[p].rot.value =
                                  fixed.table[KeyOf(tree, E[p])]
               /\ call.i = Cardinality(free)

\* a call in which a channel with a fixed entry comes before a channel
\* without, and a skipped joint's channels are counted
C10_Witness ==
    /\ Returned("joint_positions")
    /\ Len(tree) >= 3
    /\ call.rots[1].rot.src = "fixed"
    /\ call.rots[2].rot.src = "angles"
    /\ \E n \in DOMAIN tree :
          /\ IsJoint(tree, n)
          /\ NameLower(tree[n].name) \in call.args.skip
          /\ \E p \in DOMAIN call.rots :
                call.rots[p].node = n /\ call.rots[p].rot.src = "angles"
    /\ call.i < Len(call.rots)

\* the local transform the call built for node n: the rotations it built for
\* the node's channels and the node's offset
LocalTransform(n) ==
    LET mine == SelectSeq(call.rots, LAMBDA r : r.node = n)
    IN  [rot |-> [k \in DOMAIN mine |-> mine[k].rot],
         offset |-> NodeOffset(call.args, tree[n], n).value]

\* the product of the local transforms from the root down to node n
RECURSIVE PathTransform(_)
PathTransform(n) ==
    IF tree[n].parent = 0 THEN <<LocalTransform(n)>>
    ELSE Append(PathTransform(tree[n].parent), LocalTransform(n))

\* C4: joint_positions returns, in pre-order, the position of every node
\* whose name is not in skip, and of no other: a skipped end site is left
\* out alone, a skipped joint is left out while each of its descendants that
\* is not skipped is there, under the transform accumulated through the
\* skipped joint.
C4_SkipSemantics ==
    Returned("joint_positions")
        => LET emitted == SelectSeq(PreOrder(tree),
                              LAMBDA n : NameLower(tree[n].name) \notin call.args.skip)
           IN  /\ Len(call.out) = Len(emitted)
               /\ \A k \in DOMAIN emitted : call.out[k] = PathTransform(emitted[k])

\* the root's child joint is skipped and the end site below it is emitted
C4_Witness ==
    /\ Returned("joint_positions")
    /\ Len(tree) = 3
    /\ IsJoint(tree, 2)
    /\ tree[3].parent = 2
    /\ NameLower(tree[2].name) \in call.args.skip
    /\ NameLower(tree[1].name) \notin call.args.skip
    /\ Len(call.out) = 2
    /\ Len(call.out[2]) = 3
    /\ call.out[2][2].rot # <<>>

\* the call is given one sample: angles and lengths both unbatched, or both
\* batches of one row
BatchOfOne(a) ==
    /\ WellRanked(a.angles)
    /\ a.angles.ndim = 2 => a.angles.shape[1] = 1
    /\ a.lengths.given =>
          /\ WellRanked(a.lengths.tensor)
          /\ a.lengths.tensor.ndim = 2 => a.lengths.tensor.shape[1] = 1
          /\ a.lengths.tensor.ndim = 1 => a.angles.ndim = 1

\* the one sample as a vector
Sample(x) == Vector(x.data)

Unbatched(a) ==
    [a EXCEPT !.angles = Sample(@),
              !.lengths = IF @.given THEN Given(Sample(@.tensor)) ELSE @]

\* C9: joint_positions_batch given one sample returns what joint_positions
\* returns for the unbatched inputs: the same exception if any, else the
\* same joints in the same order, each under the same composition of
\* transforms, every channel having consumed the same angle, and the same
\* cursor.
C9_BatchOfOne ==
    (call.fn = "joint_positions_batch" /\ BatchOfOne(call.args))
        => LET u == joint_positions(tree, 1, Unbatched(call.args), StartAt(0), <<>>)
           IN  /\ call.raised = u.raised
               /\ call.raised = NoError =>
                     /\ call.out = [k \in DOMAIN u.out |-> <<u.out[k]>>]
                     /\ call.rots = [p \in DOMAIN u.rots |->
                                        [node |-> u.rots[p].node,
                                         rot |-> <<u.rots[p].rot>>]]
                     /\ call.i = u.i

\* a batch of one row for a tree of three nodes, with a fixed channel, a
\* skipped joint and a length taken from lengths
C9_Witness ==
    /\ Returned("joint_positions_batch")
    /\ BatchOfOne(call.args)
    /\ call.args.angles.ndim = 2
    /\ call.args.lengths.given
    /\ Len(tree) = 3
    /\ Len(call.out) = 2
    /\ \E p \in DOMAIN call.rots : call.rots[p].rot[1].src = "fixed"
    /\ \E p \in DOMAIN call.rots : call.rots[p].rot[1].src = "angles"
    /\ \E k \in DOMAIN call.out : \E j \in DOMAIN call.out[k][1] :
          /\ call.out[k][1][j].offset # tree[1].offset
          /\ \A n \in DOMAIN tree : call.out[k][1][j].offset # tree[n].offset

\* C8: joint_positions_batch rejects at entry, with its input-validation
\* error and before anything is computed, every call whose angles or whose
\* lengths have a rank other than 1 or 2.
C8_RankRejected ==
    (/\ call.fn = "joint_positions_batch"
     /\ phase = "processed"
     /\ \/ ~WellRanked(call.args.angles)
        \/ call.args.lengths.given /\ ~WellRanked(call.args.lengths.tensor))
        => /\ call.raised.kind = "Exception"
           /\ call.rots = <<>>
           /\ call.out = <<>>

\* ------------------------------------------------------- numpy_renderer.py
\* A bone is [point_1, point_2]: the position of a node, which is its
\* transform, and the position of a child's offset under that transform.
\* the traversal state of a get_bones call: the caller's list angles_rad,
\* the cell i, the list bones and the exception that ended it
BonesAt(angles, i) == [angles_rad |-> angles, i |-> i, bones |-> <<>>, raised |-> NoError]

\* numpy get_bones, for ch in node.channels: acc = [rot, angles_rad, raised];
\* angles_rad.pop(0) removes the first angle from the caller's list and is an
\* IndexError on an empty list
RECURSIVE PopRotations(_, _, _)
PopRotations(n, chs, acc) ==
    IF chs = <<>> \/ acc.raised # NoError THEN acc
    ELSE IF ~InRotationMap(Head(chs)) THEN PopRotations(n, Tail(chs), acc)
    ELSE IF acc.angles_rad = <<>>
    THEN [acc EXCEPT !.raised = [kind |-> "IndexError", node |-> n, name |-> <<>>]]
    ELSE PopRotations(n, Tail(chs),
             [acc EXCEPT
                !.rot = Append(@, [axis |-> Head(chs)[1], src |-> "angles",
                                   value |-> Head(acc.angles_rad)]),
                !.angles_rad = Tail(@)])

\* for child in node.children, first half: the bone from node to child
BoneTo(node_trans, child) ==
    [point_1 |-> node_trans,
     point_2 |-> [trans |-> node_trans, offset |-> child.offset]]

\* numpy get_bones(node, angles_rad, parent_trans) on the traversal state st
RECURSIVE numpy_get_bones(_, _, _, _)
RECURSIVE numpy_get_bones_children(_, _, _, _)
numpy_get_bones(t, n, st, parent_trans) ==
    LET node == t[n]
        r == PopRotations(n, node.channels,
                 [rot |-> <<>>, angles_rad |-> st.angles_rad, raised |-> NoError])
        st1 == [st EXCEPT !.angles_rad = r.angles_rad, !.raised = r.raised]
        node_trans == Append(parent_trans, [rot |-> r.rot, offset |-> node.offset])
    IN  IF r.raised # NoError THEN st1
        ELSE numpy_get_bones_children(t, Children(t, n), st1, node_trans)

numpy_get_bones_children(t, kids, st, node_trans) ==
    IF kids = <<>> \/ st.raised # NoError THEN st
    ELSE numpy_get_bones_children(t, Tail(kids),
             numpy_get_bones(t, Head(kids),
                 [st EXCEPT !.bones = Append(@, BoneTo(node_trans, t[Head(kids)]))],
                 node_trans),
             node_trans)

\* ------------------------------------------- theano_renderer.py, get_bones
\* theano get_bones, for ch in node.channels: acc = [rot, i]
RECURSIVE IndexRotations(_, _, _)
IndexRotations(vec, chs, acc) ==
    IF chs = <<>> THEN acc
    ELSE IF ~InRotationMap(Head(chs)) THEN IndexRotations(vec, Tail(chs), acc)
    ELSE IndexRotations(vec, Tail(chs),
             [rot |-> Append(acc.rot, [axis |-> Head(chs)[1]] @@ AngleAt(vec, acc.i)),
              i |-> acc.i + 1])

\* theano get_bones(node, angles_rad, i, parent_trans) on the traversal state
\* st, st.i being the cell the list i holds
RECURSIVE theano_get_bones(_, _, _, _)
RECURSIVE theano_get_bones_children(_, _, _, _)
theano_get_bones(t, n, st, parent_trans) ==
    LET node == t[n]
        r == IndexRotations(st.angles_rad, node.channels, [rot |-> <<>>, i |-> st.i])
        st1 == [st EXCEPT !.i = r.i]
        node_trans == Append(parent_trans, [rot |-> r.rot, offset |-> node.offset])
    IN  theano_get_bones_children(t, Children(t, n), st1, node_trans)

theano_get_bones_children(t, kids, st, node_trans) ==
    IF kids = <<>> THEN st
    ELSE theano_get_bones_children(t, Tail(kids),
             theano_get_bones(t, Head(kids),
                 [st EXCEPT !.bones = Append(@, BoneTo(node_trans, t[Head(kids)]))],
                 node_trans),
             node_trans)

\* ------------------------------------------------- bone segments of a file
\* The caller holds the angle sequence in the list angles_rad and gives it
\* to each call; i_default is the cell of the list that is the default of
\* theano get_bones' parameter i, made once when the function is defined.
InitBones ==
    /\ tree \in {RootOnly(lab) : lab \in RenderLabels}
    /\ joint_order = JointOrderOf(NumJoints)
    /\ channel_order = <<>>
    /\ offsets = <<>>
    /\ index = 0
    /\ raised = NoError
    /\ phase = "parsed"
    /\ reader = NoReader
    /\ angles_list = <<>>
    /\ offsets_list = <<>>
    /\ log = <<>>
    /\ event = NoEvent
    /\ call = NoCall
    /\ prev = NoCall
    /\ angles_rad = AngleVector
    /\ i_default = 0

\* The tokenizer reads one more joint or end site of the HIERARCHY section.
ParseBonesNode ==
    /\ call.fn = "none"
    /\ Len(tree) < MaxNodes
    /\ \E lab \in RenderLabels \cup {EndSiteLabel} :
       \E p \in DOMAIN tree :
          /\ CanDeclare(tree, p)
          /\ tree' = WithNode(tree, lab, p)
    /\ UNCHANGED <<joint_order, channel_order, offsets, index, raised, phase,
                   reader, angles_list, offsets_list, log, event, fkvars>>

BonesCall(fn, st) ==
    [fn |-> fn, args |-> [NoArgs EXCEPT !.angles = Vector(angles_rad)],
     out |-> st.bones, i |-> st.i, rots |-> <<>>, raised |-> st.raised]

\* a top-level numpy get_bones(root, angles_rad): parent_trans takes its
\* default.  The caller makes at most two calls.
NumpyGetBones ==
    /\ prev.fn = "none"
    /\ LET st == numpy_get_bones(tree, 1, BonesAt(angles_rad, 0), <<>>)
       IN  /\ call' = BonesCall("numpy get_bones", st)
           /\ angles_rad' = st.angles_rad
    /\ prev' = call
    /\ UNCHANGED <<tree, joint_order, channel_order, offsets, index, raised,
                   phase, reader, angles_list, offsets_list, log, event,
                   i_default>>

\* a top-level theano get_bones(root, angles_rad), angles_rad being a vector
\* of the caller's angles: i and parent_trans take their defaults
TheanoGetBones ==
    /\ prev.fn = "none"
    /\ LET st == theano_get_bones(tree, 1, BonesAt(AngleVector, i_default), <<>>)
       IN  /\ call' = [BonesCall("theano get_bones", st) EXCEPT
                          !.args.angles = Vector(AngleVector)]
           /\ i_default' = st.i
    /\ prev' = call
    /\ UNCHANGED <<tree, joint_order, channel_order, offsets, index, raised,
                   phase, reader, angles_list, offsets_list, log, event,
                   angles_rad>>

NextBones == ParseBonesNode \/ NumpyGetBones \/ TheanoGetBones

SpecBones == InitBones /\ [][NextBones]_vars

\* ------------------------------------------------ what the claims speak of
\* C3: two successive calls of one get_bones with the same tree and the same
\* angle sequence return the same list of bones, and end the same way (on a
\* tree whose joints below the root are offset from their parents, so that
\* the angles tell in the positions).
C3_Idempotent ==
    (/\ prev.fn = call.fn
     /\ call.fn \in {"numpy get_bones", "theano get_bones"}
     /\ \A n \in DOMAIN tree : n > 1 => tree[n].offset # <<0, 0, 0>>)
        => /\ call.out = prev.out
           /\ call.raised = prev.raised

\* ------------------------------------------------- loading one file's angles
\* Where the root of a file declares its three position channels among its
\* rotation channels: before them, after them, alternating with them, or
\* before them in the order Z Y X.
Layouts == {"first", "last", "alternating", "reversed"}

RootChannels(order, layout) ==
    LET rot == RotChannels(order)
    IN  CASE layout = "first" -> PosChannels \o rot
          [] layout = "last" -> rot \o PosChannels
          [] layout = "alternating" ->
                 <<PosChannels[1], rot[1], PosChannels[2], rot[2],
                   PosChannels[3], rot[3]>>
          [] OTHER -> <<PosChannels[3], PosChannels[2], PosChannels[1]>> \o rot

RootWithLayout(lab, layout) ==
    <<[MkNode(1, lab, 0) EXCEPT !.channels = RootChannels(lab.order, layout)]>>

\* The channels of the whole tree in the order of the file, which declares
\* the nodes depth first: [node, ch]
RECURSIVE FileChannelsOf(_, _)
FileChannelsOf(t, nodes) ==
    IF nodes = <<>> THEN <<>>
    ELSE [k \in DOMAIN t[Head(nodes)].channels |->
             [node |-> Head(nodes), ch |-> t[Head(nodes)].channels[k]]]
         \o FileChannelsOf(t, Tail(nodes))

FileChannels(t) == FileChannelsOf(t, PreOrder(t))

InitLoadOne ==
    /\ tree \in {RootWithLayout(lab, layout) :
                    lab \in ReconcileLabels, layout \in Layouts}
    /\ joint_order = JointOrderOf(NumJoints)
    /\ channel_order = <<>>
    /\ offsets = <<>>
    /\ index = 0
    /\ raised = NoError
    /\ phase = "parsed"
    /\ reader = NoReader
    /\ angles_list = <<>>
    /\ offsets_list = <<>>
    /\ log = <<>>
    /\ event = NoEvent
    /\ call = NoCall
    /\ prev = NoCall
    /\ angles_rad = <<>>
    /\ i_default = 0

\* load_all's loop body for the one .bvh file of the directory: the file is
\* read (one frame), the buffers are made and reconciled, and the file's
\* offsets and selected angles are appended, or the file is skipped
\* (AssertionError), or load_all ends (any other exception).
LoadOneFile ==
    /\ phase = "parsed"
    /\ LET rd == ReadFile(tree)
           st == populate_channel_order_and_offsets(
                     tree, 1, FreshBuffers(joint_order), joint_order)
       IN  /\ reader' = rd
           /\ channel_order' = st.channel_order
           /\ offsets' = st.offsets
           /\ index' = st.index
           /\ IF st.raised # NoError
              THEN /\ raised' = st.raised
                   /\ phase' = IF st.raised.kind = "AssertionError"
                               THEN "skipped" ELSE "aborted"
                   /\ log' = IF st.raised.kind = "AssertionError"
                             THEN <<[line |-> "Skipping", file |-> 1,
                                     reason |-> st.raised]>>
                             ELSE log
                   /\ UNCHANGED <<angles_list, offsets_list>>
              ELSE IF ~ColumnsInBounds(rd.angles_rad, st.channel_order)
              THEN /\ raised' = [kind |-> "IndexError", node |-> 0, name |-> <<>>]
                   /\ phase' = "aborted"
                   /\ offsets_list' = <<st.offsets>>
                   /\ UNCHANGED <<angles_list, log>>
              ELSE /\ raised' = NoError
                   /\ phase' = "loaded"
                   /\ offsets_list' = <<st.offsets>>
                   /\ angles_list' = <<SelectColumns(rd.angles_rad, st.channel_order)>>
                   /\ log' = <<[line |-> "Loaded", file |-> 1, reason |-> NoError]>>
    /\ UNCHANGED <<tree, joint_order, event, fkvars>>

NextLoadOne == ParseNode \/ LoadOneFile

SpecLoadOne == InitLoadOne /\ [][NextLoadOne]_vars

\* ------------------------------------------------ what the claims speak of
\* only the root declares position channels, all three of them, and every
\* joint declares exactly three rotation channels
OnlyRootHasPositions(t) ==
    \A n \in DOMAIN t :
        LET pos == SelectSeq(t[n].channels, LAMBDA ch : ch[2] = "position")
            rot == SelectSeq(t[n].channels, LAMBDA ch : ch[2] = "rotation")
        IN  /\ Len(pos) = (IF n = 1 THEN 3 ELSE 0)
            /\ Len(rot) = (IF t[n].is_end_site THEN 0 ELSE 3)

\* every canonical slot is the slot of at most one joint of the tree, so
\* that 'the joint whose canonical slot is slot' names one joint
OneJointPerSlot(t) ==
    \A n, o \in DOMAIN t :
        (IsJoint(t, n) /\ IsJoint(t, o) /\ NameLower(t[n].name) = NameLower(t[o].name))
            => n = o

\* the place (from 0) in the file's channels of the k-th (from 0) rotation
\* channel that joint n declares
FilePlaceOf(t, n, k) ==
    LET all == FileChannels(t)
        mine == {c \in DOMAIN all : all[c].node = n /\ all[c].ch[2] = "rotation"}
    IN  (CHOOSE c \in mine : Cardinality({d \in mine : d < c}) = k) - 1

\* C11: for a tree in which only the root declares the position channels
\* and every joint declares three rotation channels, after the file is read
\* and reconciled with success, channel_order[3 * slot + k] is the column of
\* the reader's angle vector that holds the k-th declared rotation channel
\* of the joint whose canonical slot is slot, and angles_rad[:, channel_order]
\* has that channel's angle of every frame at 3 * slot + k.
C11_ColumnsOfJoints ==
    (phase = "loaded" /\ OnlyRootHasPositions(tree) /\ OneJointPerSlot(tree))
        => \A n \in DOMAIN tree : IsJoint(tree, n) =>
              \A k \in 0..2 :
                 LET slot == joint_order[NameLower(tree[n].name)][1]
                     col == channel_order[3 * slot + k + 1]
                     place == FilePlaceOf(tree, n, k)
                 IN  /\ col < Len(reader.ang_idx)
                     /\ reader.ang_idx[col + 1] = place
                     /\ \A f \in DOMAIN angles_list[1] :
                           angles_list[1][f][3 * slot + k + 1]
                               = Radians(FileFrame(tree)[place + 1])

\* a file whose root declares positions and rotations alternating, whose
\* joints come in another order than their canonical slots, loaded
C11_Witness ==
    /\ phase = "loaded"
    /\ OnlyRootHasPositions(tree)
    /\ OneJointPerSlot(tree)
    /\ reader.pos_idx.kind = "list"
    /\ reader.ang_idx # <<3, 4, 5>>
    /\ Len(tree) = 3
    /\ IsJoint(tree, 2)
    /\ channel_order = <<3, 4, 5, 0, 1, 2>>
    /\ Len(angles_list[1]) = 1

====
